---- MODULE Spec2Model ----
(***************************************************************************)
(* Azure-Agent: an OpenAI-compatible chat endpoint (agent.py) that hands   *)
(* the last user message to IntentHandler.process_query                    *)
(* (intent_handler.py), an ordered ladder of keyword, regular-expression   *)
(* and alias matchers selecting one handler, which calls AzureService      *)
(* (azure_service.py) and formats the result as text.                      *)
(*                                                                         *)
(* Strings are TLA+ strings; a character is a string of length one.  A     *)
(* TLA+ string holds the characters U+0000..U+00FF, the backquote          *)
(* excepted: the character classes below are Python's on that range.       *)
(***************************************************************************)
EXTENDS Integers, Sequences, FiniteSets, TLC

(***************************************************************************)
(* Text: the str operations process_query relies on.                       *)
(***************************************************************************)

At(s, i) == SubSeq(s, i, i)

\* the characters that str.lower() changes, and at the same position what it makes of them
UpperChars == "ABCDEFGHIJKLMNOPQRSTUVWXYZÀÁÂÃÄÅÆÇÈÉÊËÌÍÎÏÐÑÒÓÔÕÖØÙÚÛÜÝÞ"
LowerChars == "abcdefghijklmnopqrstuvwxyzàáâãäåæçèéêëìíîïðñòóôõöøùúûüýþ"
\* the characters of \w that are neither cased letters, decimal digits nor "_"
OtherWordChars == "ª²³µ¹º¼½¾ßÿ"
DigitChars == "0123456789"

CharsOf(s) == { At(s, i) : i \in 1..Len(s) }

Digits == CharsOf(DigitChars)
\* \w of a str pattern
WordChars ==
    CharsOf(UpperChars) \cup CharsOf(LowerChars) \cup Digits \cup {"_"} \cup CharsOf(OtherWordChars)
\* str.isspace and \s of a str pattern: space, \t, \n, \r, \f, and U+000B, U+001C,
\* U+001D, U+001E, U+001F, U+0085, U+00A0
SpaceChars ==
    {" ", "\t", "\n", "\r", "\f", "", "", "", "", "", "", " "}

LowerChar(c) ==
    IF c \in CharsOf(UpperChars)
    THEN At(LowerChars, CHOOSE i \in 1..Len(UpperChars) : At(UpperChars, i) = c)
    ELSE c

RECURSIVE Lower(_)
Lower(s) == IF s = "" THEN "" ELSE LowerChar(Head(s)) \o Lower(Tail(s))

\* kw in s
Contains(s, kw) ==
    \E i \in 1..(Len(s) - Len(kw) + 1) : SubSeq(s, i, i + Len(kw) - 1) = kw

\* any(kw in s for kw in kws)
AnyKw(s, kws) == \E k \in 1..Len(kws) : Contains(s, kws[k])

DigitValue(c) == (CHOOSE i \in 1..Len(DigitChars) : At(DigitChars, i) = c) - 1

\* int(s) for a string of decimal digits
RECURSIVE ParseInt(_)
ParseInt(s) ==
    IF s = "" THEN 0
    ELSE 10 * ParseInt(SubSeq(s, 1, Len(s) - 1)) + DigitValue(At(s, Len(s)))

\* s.split(): the maximal runs of non-space characters, in order
RECURSIVE SplitFrom(_, _, _)
SplitFrom(s, i, cur) ==
    IF i > Len(s) THEN (IF cur = "" THEN <<>> ELSE <<cur>>)
    ELSE IF At(s, i) \in SpaceChars
         THEN (IF cur = "" THEN <<>> ELSE <<cur>>) \o SplitFrom(s, i + 1, "")
         ELSE SplitFrom(s, i + 1, cur \o At(s, i))

Split(s) == SplitFrom(s, 1, "")

\* len(s.split()): the number of positions where a word starts
WordCount(s) ==
    Cardinality({ i \in 1..Len(s) :
                    /\ At(s, i) \notin SpaceChars
                    /\ (i = 1 \/ At(s, i - 1) \in SpaceChars) })

(***************************************************************************)
(* Regular expressions: a backtracking matcher in the order Python's re    *)
(* tries alternatives (left alternative first, greedy repetition first).   *)
(* A pattern is a record tagged by t; Match gives the sequence of ways the *)
(* pattern matches s from position i, most preferred first, each with its  *)
(* end position and the spans of capture groups 1 and 2.                   *)
(***************************************************************************)

Lit(str)          == [t |-> "lit", str |-> str]
Cls(chars)        == [t |-> "cls", chars |-> chars]
Cat(xs)           == [t |-> "cat", xs |-> xs]
Alt(xs)           == [t |-> "alt", xs |-> xs]
Rep(r, lo, hi)    == [t |-> "rep", r |-> r, lo |-> lo, hi |-> hi, unbounded |-> FALSE]
Plus(r)           == [t |-> "rep", r |-> r, lo |-> 1, hi |-> 0, unbounded |-> TRUE]
Star(r)           == [t |-> "rep", r |-> r, lo |-> 0, hi |-> 0, unbounded |-> TRUE]
Opt(r)            == [t |-> "rep", r |-> r, lo |-> 0, hi |-> 1, unbounded |-> FALSE]
Grp(n, r)         == [t |-> "grp", n |-> n, r |-> r]
WordBoundary      == [t |-> "wb"]

NoCaps == << <<0, 0>>, <<0, 0>> >>

IsWordAt(s, i) == i >= 1 /\ i <= Len(s) /\ At(s, i) \in WordChars

Pred(n) == IF n > 0 THEN n - 1 ELSE 0

RECURSIVE Match(_, _, _, _)
RECURSIVE MatchCat(_, _, _, _)
RECURSIVE MatchAlt(_, _, _, _)
RECURSIVE MatchRepEach(_, _, _, _)

Match(re, s, i, caps) ==
    CASE re.t = "lit" ->
            IF i + Len(re.str) - 1 <= Len(s) /\ SubSeq(s, i, i + Len(re.str) - 1) = re.str
            THEN << [pos |-> i + Len(re.str), caps |-> caps] >> ELSE <<>>
      [] re.t = "cls" ->
            IF i <= Len(s) /\ At(s, i) \in re.chars
            THEN << [pos |-> i + 1, caps |-> caps] >> ELSE <<>>
      [] re.t = "wb" ->
            IF IsWordAt(s, i - 1) # IsWordAt(s, i)
            THEN << [pos |-> i, caps |-> caps] >> ELSE <<>>
      [] re.t = "cat" -> MatchCat(re.xs, s, i, caps)
      [] re.t = "alt" -> MatchAlt(re.xs, s, i, caps)
      [] re.t = "grp" ->
            LET inner == Match(re.r, s, i, caps)
            IN  [k \in 1..Len(inner) |->
                    [pos |-> inner[k].pos,
                     caps |-> [inner[k].caps EXCEPT ![re.n] = <<i, inner[k].pos>>]]]
      [] re.t = "rep" ->
            LET more == IF re.unbounded \/ re.hi > 0
                        THEN MatchRepEach(Match(re.r, s, i, caps), re, s, i)
                        ELSE <<>>
                stop == IF re.lo = 0 THEN << [pos |-> i, caps |-> caps] >> ELSE <<>>
            IN  more \o stop

MatchCat(xs, s, i, caps) ==
    IF xs = <<>> THEN << [pos |-> i, caps |-> caps] >>
    ELSE LET first == Match(Head(xs), s, i, caps)
             rest[k \in 0..Len(first)] ==
                 IF k = 0 THEN <<>>
                 ELSE rest[k - 1] \o MatchCat(Tail(xs), s, first[k].pos, first[k].caps)
         IN  rest[Len(first)]

MatchAlt(xs, s, i, caps) ==
    IF xs = <<>> THEN <<>>
    ELSE Match(Head(xs), s, i, caps) \o MatchAlt(Tail(xs), s, i, caps)

\* one more repetition after each way the body matched (an empty body match ends the loop)
MatchRepEach(first, re, s, i) ==
    IF first = <<>> THEN <<>>
    ELSE (IF Head(first).pos > i
          THEN Match([re EXCEPT !.lo = Pred(re.lo), !.hi = Pred(re.hi)],
                     s, Head(first).pos, Head(first).caps)
          ELSE IF re.lo <= 1 THEN << Head(first) >> ELSE <<>>)
         \o MatchRepEach(Tail(first), re, s, i)

NoMatch == [found |-> FALSE, start |-> 0, pos |-> 0, caps |-> NoCaps]

\* re.search(pattern, s): the preferred match at the leftmost start that has one
RECURSIVE SearchFrom(_, _, _)
SearchFrom(re, s, i) ==
    IF i > Len(s) + 1 THEN NoMatch
    ELSE LET ms == Match(re, s, i, NoCaps)
         IN  IF ms # <<>>
             THEN [found |-> TRUE, start |-> i, pos |-> ms[1].pos, caps |-> ms[1].caps]
             ELSE SearchFrom(re, s, i + 1)

Search(re, s) == SearchFrom(re, s, 1)

\* match.group(n)
Group(s, m, n) == SubSeq(s, m.caps[n][1], m.caps[n][2] - 1)

(***************************************************************************)
(* intent_handler.py: the alias table and the matchers of process_query.   *)
(***************************************************************************)

AZURE_RESOURCES == <<
    [provider |-> "Microsoft.Compute/virtualMachines", aliases |-> <<"vm", "virtual machine", "vms", "instances">>],
    [provider |-> "Microsoft.Web/sites", aliases |-> <<"web app", "webapp", "function", "app service", "site", "serverless">>],
    [provider |-> "Microsoft.ContainerService/managedClusters", aliases |-> <<"aks", "kubernetes", "k8s", "cluster">>],
    [provider |-> "Microsoft.Storage/storageAccounts", aliases |-> <<"storage", "stg", "blob", "account", "file share">>],
    [provider |-> "Microsoft.Sql/servers/databases", aliases |-> <<"sql", "database", "db">>],
    [provider |-> "Microsoft.DocumentDB/databaseAccounts", aliases |-> <<"cosmos", "nosql", "documentdb">>],
    [provider |-> "Microsoft.Network/virtualNetworks", aliases |-> <<"vnet", "network", "virtual network">>],
    [provider |-> "Microsoft.Network/networkSecurityGroups", aliases |-> <<"nsg", "firewall", "security group">>],
    [provider |-> "Microsoft.KeyVault/vaults", aliases |-> <<"key vault", "kv", "secret", "vault">>],
    [provider |-> "Microsoft.Network/publicIPAddresses", aliases |-> <<"public ip", "pip", "ip address">>],
    [provider |-> "Microsoft.Compute/disks", aliases |-> <<"disk", "vhd", "drive">>],
    [provider |-> "Microsoft.Network/networkInterfaces", aliases |-> <<"nic", "network interface", "adapter">>],
    [provider |-> "Microsoft.Insights/components", aliases |-> <<"app insights", "application insights", "monitor", "telemetry">>],
    [provider |-> "Microsoft.OperationalInsights/workspaces", aliases |-> <<"log analytics", "workspace", "logs">>],
    [provider |-> "Microsoft.ContainerRegistry/registries", aliases |-> <<"acr", "registry", "docker registry">>],
    [provider |-> "Microsoft.ApiManagement/service", aliases |-> <<"apim", "api management">>],
    [provider |-> "Microsoft.Logic/workflows", aliases |-> <<"logic app", "workflow">>],
    [provider |-> "Microsoft.ServiceBus/namespaces", aliases |-> <<"service bus", "bus", "queue", "topic">>],
    [provider |-> "Microsoft.EventHub/namespaces", aliases |-> <<"event hub", "hub">>],
    [provider |-> "Microsoft.RecoveryServices/vaults", aliases |-> <<"recovery services", "asr", "backup", "vault">>],
    [provider |-> "Microsoft.Cache/Redis", aliases |-> <<"redis", "cache">>] >>

Spaces1 == Plus(Cls(SpaceChars))
Spaces0 == Star(Cls(SpaceChars))
NameChars == WordChars \cup {"-"}

ComparatorWords == <<"greater", "higher", "more", "above", "less", "below", "under">>

LitAlt(words) == Alt([k \in 1..Len(words) |-> Lit(words[k])])

\* (cpu|memory)(?:\s+\w+){0,3}\s+(?:is|was|were|are|of)?\s*
\* (?:greater|higher|more|above|less|below|under)\s*(?:than|to|of)?\s*(\d+)(?:%)?
PerfPattern ==
    Cat(<< Grp(1, LitAlt(<<"cpu", "memory">>)),
           Rep(Cat(<<Spaces1, Plus(Cls(WordChars))>>), 0, 3),
           Spaces1,
           Opt(LitAlt(<<"is", "was", "were", "are", "of">>)),
           Spaces0,
           LitAlt(ComparatorWords),
           Spaces0,
           Opt(LitAlt(<<"than", "to", "of">>)),
           Spaces0,
           Grp(2, Plus(Cls(Digits))),
           Opt(Lit("%")) >>)

\* (status|health|state) of (?:vm|virtual machine) ([\w-]+)
VmStatusPattern ==
    Cat(<< Grp(1, LitAlt(<<"status", "health", "state">>)), Lit(" of "),
           LitAlt(<<"vm", "virtual machine">>), Lit(" "),
           Grp(2, Plus(Cls(NameChars))) >>)

\* (cpu|memory|metrics) (?:for|of) ([\w-]+)
MetricsPattern ==
    Cat(<< Grp(1, LitAlt(<<"cpu", "memory", "metrics">>)), Lit(" "),
           LitAlt(<<"for", "of">>), Lit(" "),
           Grp(2, Plus(Cls(NameChars))) >>)

\* rf"\b{alias}s?\b"
AliasPattern(alias) == Cat(<<WordBoundary, Lit(alias), Opt(Lit("s")), WordBoundary>>)

GreaterWords       == <<"greater", "higher", "more", "above">>
HelpKeywords       == <<"what can you do", "help", "capabilities", "list features">>
ListVmsKeywordsShort == <<"list vms", "show vms", "get vms">>
ListVmsKeywords    == <<"list vms", "show vms", "show all vms", "get vms">>
DiskCountKeywords  == <<"disk count", "no of disks", "number of disks", "disks attached">>
RgKeywords         == <<"resource groups", "list rgs", "show rgs">>
VnetKeywords       == <<"vnets", "networks", "virtual network">>
PublicIpKeywords   == <<"public ips", "ip addresses", "ips">>
SubscriptionKeywords == <<"list subscriptions", "show subscriptions">>
StoppedKeywords    == <<"stopped", "deallocated", "shutdown">>

UnattachedFilter ==
    "properties.diskState == 'Unattached' or properties.state == 'Unattached' or isempty(managedBy)"
StoppedFilter ==
    "properties.extended.instanceView.powerState.displayStatus has 'stopped' or properties.state == 'Stopped'"
NoFilter == "None"

\* direction = "greater" if any(kw in query for kw in [...]) else "less"
Direction(query) == IF AnyKw(query, GreaterWords) THEN "greater" ELSE "less"

\* state_filter of a resource-discovery query
StateFilter(query) ==
    IF Contains(query, "unattached") THEN UnattachedFilter
    ELSE IF AnyKw(query, StoppedKeywords) THEN StoppedFilter
    ELSE NoFilter

\* the (provider, alias) pairs of AZURE_RESOURCES in the order the two loops visit them
RECURSIVE AliasPairsFrom(_)
AliasPairsFrom(k) ==
    IF k > Len(AZURE_RESOURCES) THEN <<>>
    ELSE [a \in 1..Len(AZURE_RESOURCES[k].aliases) |->
             [provider |-> AZURE_RESOURCES[k].provider, alias |-> AZURE_RESOURCES[k].aliases[a]]]
         \o AliasPairsFrom(k + 1)

AliasPairs == AliasPairsFrom(1)

AliasHits(query) ==
    { k \in 1..Len(AliasPairs) : Search(AliasPattern(AliasPairs[k].alias), query).found }

\* the pair at which the loops return, 0 when no alias matches
FirstAlias(query) ==
    IF AliasHits(query) = {} THEN 0
    ELSE CHOOSE k \in AliasHits(query) : \A j \in AliasHits(query) : k <= j

Intent(matcher, handler) ==
    [matcher |-> matcher, handler |-> handler, name |-> "", provider |-> "",
     filter |-> NoFilter, metric |-> "", direction |-> "", threshold |-> 0]

\* process_query up to the call of the selected handler: the argument is the
\* lower-cased query; "fallback" stands for reaching the semantic discovery section
SelectIntent(query) ==
    LET perf_match      == Search(PerfPattern, query)
        vm_status_match == Search(VmStatusPattern, query)
        metrics_match   == Search(MetricsPattern, query)
        hit             == FirstAlias(query)
    IN  IF perf_match.found
        THEN [Intent("perf", "_handle_performance_filter") EXCEPT
                 !.metric = Group(query, perf_match, 1),
                 !.direction = Direction(query),
                 !.threshold = ParseInt(Group(query, perf_match, 2))]
        ELSE IF AnyKw(query, HelpKeywords) THEN Intent("help", "_handle_help")
        ELSE IF AnyKw(query, ListVmsKeywords) THEN Intent("list_vms", "_handle_list_vms")
        ELSE IF AnyKw(query, DiskCountKeywords) THEN Intent("disk_count", "_handle_vm_disk_count")
        ELSE IF vm_status_match.found
        THEN [Intent("vm_status", "_handle_vm_status") EXCEPT
                 !.name = Group(query, vm_status_match, 2)]
        ELSE IF metrics_match.found
        THEN [Intent("metrics", "_handle_metrics") EXCEPT
                 !.name = Group(query, metrics_match, 2)]
        ELSE IF AnyKw(query, RgKeywords) THEN Intent("rgs", "_handle_list_rgs")
        ELSE IF AnyKw(query, VnetKeywords) THEN Intent("vnets", "_handle_list_vnets")
        ELSE IF AnyKw(query, PublicIpKeywords) THEN Intent("public_ips", "_handle_list_public_ips")
        ELSE IF AnyKw(query, SubscriptionKeywords)
        THEN Intent("subscriptions", "_handle_list_subscriptions")
        ELSE IF hit # 0
        THEN [Intent("alias", "_handle_generic_discovery") EXCEPT
                 !.name = AliasPairs[hit].alias,
                 !.provider = AliasPairs[hit].provider,
                 !.filter = StateFilter(query)]
        ELSE Intent("fallback", "")

(***************************************************************************)
(* The cloud behind the SDK clients: an inventory, and the SDK operations  *)
(* that currently raise (with the message of the exception).               *)
(***************************************************************************)

AZURE_SUBSCRIPTION_ID == "sub-0001"

\* stands for the backquote of the response texts, which a TLA+ string cannot hold
BQ == "'"

Vm(name, rg, power, cpu) ==
    [name |-> name, resource_group |-> rg, location |-> "eastus", size |-> "Standard_B2s",
     os |-> "Linux", provisioning_state |-> "Succeeded", power |-> power, cpu |-> cpu]

VmId(rg, name) ==
    "/subscriptions/" \o AZURE_SUBSCRIPTION_ID \o "/resourceGroups/" \o rg
        \o "/providers/Microsoft.Compute/virtualMachines/" \o name

\* a resource group as resource_groups.list() yields it
ResourceGroup(name, location) == [name |-> name, location |-> location]

\* the list without its k-th element
Without(list, k) == SubSeq(list, 1, k - 1) \o SubSeq(list, k + 1, Len(list))

\* a subscription with two VMs and three resource groups
FullInventory ==
    [vms |-> << Vm("web-01", "rg-web", "VM running", <<"12.5", "40.0">>),
                Vm("MyVMName", "rg-app", "VM deallocated", <<>>) >>,
     groups |-> << ResourceGroup("rg-web", "eastus"), ResourceGroup("rg-app", "eastus"),
                   ResourceGroup("rg-empty", "westus") >>]

\* the VMs and the resource groups of a subscription, each in the order the SDK lists
\* them: two subscriptions that never had a VM, and the full one with any of its VMs
\* deleted
Inventories ==
    { [vms |-> <<>>, groups |-> <<>>],
      [vms |-> <<>>, groups |-> << ResourceGroup("rg-empty", "westus") >>],
      FullInventory,
      [FullInventory EXCEPT !.vms = Without(FullInventory.vms, 1)],
      [FullInventory EXCEPT !.vms = Without(FullInventory.vms, 2)],
      [FullInventory EXCEPT !.vms = <<>>] }

SdkOperations ==
    {"virtual_machines.list_all", "virtual_machines.list", "virtual_machines.get",
     "metrics.list", "resource_groups.list"}

FailureSets ==
    { {}, {"virtual_machines.list_all"}, {"virtual_machines.get", "metrics.list"},
      {"resource_groups.list"} }

FailureMessages == {"AuthenticationFailed", "Request timed out"}

Clouds ==
    { [vms |-> v.vms, groups |-> v.groups, failing |-> f, msg |-> m] :
        v \in Inventories, f \in FailureSets \ {{}}, m \in FailureMessages }
    \cup { [vms |-> v.vms, groups |-> v.groups, failing |-> {}, msg |-> ""] : v \in Inventories }

(***************************************************************************)
(* azure_service.py: AzureService.  Every method wraps one SDK operation   *)
(* in try/except and returns {"error": str(e)} when it raises.  A result   *)
(* is [error, msg, value]; sdk is the SDK operation the method issues.     *)
(***************************************************************************)

AzureServiceMethods == {"list_vms", "get_vm_status", "get_metrics", "list_resource_groups"}

\* a variant whose status lookup goes through the start operation
SdkOperationOfStart(method) ==
    CASE method = "list_vms" -> "virtual_machines.list_all"
      [] method = "get_vm_status" -> "virtual_machines.begin_start"
      [] method = "get_metrics" -> "metrics.list"
      [] method = "list_resource_groups" -> "resource_groups.list"

SdkOperationOf(method) ==
    CASE method = "list_vms" -> "virtual_machines.list_all"
      [] method = "get_vm_status" -> "virtual_machines.get"
      [] method = "get_metrics" -> "metrics.list"
      [] method = "list_resource_groups" -> "resource_groups.list"

ErrorRecord(msg) == [error |-> TRUE, msg |-> msg, value |-> <<>>]
Value(v)         == [error |-> FALSE, msg |-> "", value |-> v]

Fails(cloud, method) == SdkOperationOf(method) \in cloud.failing

\* list_vms(): the vm_data dicts of every VM of the subscription
list_vms(cloud) ==
    IF Fails(cloud, "list_vms") THEN ErrorRecord(cloud.msg)
    ELSE Value([k \in 1..Len(cloud.vms) |->
                    [name |-> cloud.vms[k].name, location |-> cloud.vms[k].location,
                     size |-> cloud.vms[k].size, os |-> cloud.vms[k].os,
                     provisioning_state |-> cloud.vms[k].provisioning_state,
                     resource_group |-> cloud.vms[k].resource_group]])

\* get_vm_status(resource_group, vm_name)
get_vm_status(cloud, resource_group, vm_name) ==
    LET found == { k \in 1..Len(cloud.vms) :
                     /\ cloud.vms[k].resource_group = resource_group
                     /\ cloud.vms[k].name = vm_name }
    IN  IF Fails(cloud, "get_vm_status") THEN ErrorRecord(cloud.msg)
        ELSE IF found = {} THEN ErrorRecord("ResourceNotFound")
        ELSE LET vm == cloud.vms[CHOOSE k \in found : TRUE]
             IN  Value([name |-> vm.name, status |-> vm.power, location |-> vm.location,
                        size |-> vm.size, provisioning_state |-> vm.provisioning_state])

\* values[-5:]
LastFive(values) == SubSeq(values, IF Len(values) > 5 THEN Len(values) - 4 ELSE 1, Len(values))

\* get_metrics(resource_id): the default metric, "Percentage CPU", as name -> readings
get_metrics(cloud, resource_id) ==
    LET found == { k \in 1..Len(cloud.vms) :
                     VmId(cloud.vms[k].resource_group, cloud.vms[k].name) = resource_id }
    IN  IF Fails(cloud, "get_metrics") THEN ErrorRecord(cloud.msg)
        ELSE IF found = {} THEN ErrorRecord("ResourceNotFound")
        ELSE Value(<< [name |-> "Percentage CPU",
                       values |-> LastFive(cloud.vms[CHOOSE k \in found : TRUE].cpu)] >>)

\* list_resource_groups()
list_resource_groups(cloud) ==
    IF Fails(cloud, "list_resource_groups") THEN ErrorRecord(cloud.msg)
    ELSE Value([k \in 1..Len(cloud.groups) |->
                    [name |-> cloud.groups[k].name, location |-> cloud.groups[k].location]])

(***************************************************************************)
(* Outcomes of process_query: the text returned or the exception raised,   *)
(* with the handlers entered, the AzureService methods called and the SDK  *)
(* operations issued on the way.                                           *)
(***************************************************************************)

Outcome(kind, text, exc, handlers, calls) ==
    [kind |-> kind, text |-> text, exc |-> exc, handlers |-> handlers, calls |-> calls,
     sdk |-> [k \in 1..Len(calls) |-> SdkOperationOf(calls[k])]]

Exception(type, msg) == [type |-> type, msg |-> msg, status_code |-> 0, detail |-> ""]

\* fastapi.HTTPException(status_code, detail)
HTTPException(status_code, detail) ==
    [type |-> "HTTPException", msg |-> "", status_code |-> status_code, detail |-> detail]

NoException == Exception("", "")

\* str(e): an HTTPException prints as "<status_code>: <detail>"
Str(e) == IF e.type = "HTTPException" THEN ToString(e.status_code) \o ": " \o e.detail ELSE e.msg

Return(text, handlers, calls) == Outcome("return", text, NoException, handlers, calls)
Raise(type, msg, handlers, calls) ==
    Outcome("raise", "", Exception(type, msg), handlers, calls)

\* self.azure.<method> on an object whose class does not define <method>
NoAttribute(method, handlers, calls) ==
    Raise("AttributeError", "'AzureService' object has no attribute '" \o method \o "'",
          handlers, calls)

\* subscripting a key of the error dict, which is a str, with a str
StrIndexError(handlers, calls) ==
    Raise("TypeError", "string indices must be integers, not 'str'", handlers, calls)

RECURSIVE Join(_, _)
Join(parts, sep) ==
    IF parts = <<>> THEN ""
    ELSE IF Len(parts) = 1 THEN parts[1]
    ELSE parts[1] \o sep \o Join(Tail(parts), sep)

RECURSIVE Concat(_)
Concat(parts) == IF parts = <<>> THEN "" ELSE Head(parts) \o Concat(Tail(parts))

\* next((v for v in vms if v['name'].lower() == name.lower()), None): 0 for None
FindVm(vms, name) ==
    LET hits == { k \in 1..Len(vms) : Lower(vms[k].name) = Lower(name) }
    IN  IF hits = {} THEN 0 ELSE CHOOSE k \in hits : \A j \in hits : k <= j

(***************************************************************************)
(* intent_handler.py: IntentHandler.  self is the object's state: the      *)
(* class of the object bound to self.azure by __init__.                    *)
(***************************************************************************)

IntentHandlerInit == [azure |-> "AzureService"]

MethodsOf(class) == IF class = "AzureService" THEN AzureServiceMethods ELSE {}

Has(self, method) == method \in MethodsOf(self.azure)

VmRow(vm) ==
    "| " \o vm.name \o " | " \o vm.resource_group \o " | " \o vm.location \o " | "
         \o vm.size \o " | " \o vm.os \o " | " \o vm.provisioning_state \o " |\n"

_handle_list_vms(self, cloud) ==
    LET h == <<"_handle_list_vms">>
        vms == list_vms(cloud)
    IN  IF ~Has(self, "list_vms") THEN NoAttribute("list_vms", h, <<>>)
        ELSE IF vms.error THEN Return("Error fetching VMs: " \o vms.msg, h, <<"list_vms">>)
        ELSE IF vms.value = <<>>
        THEN Return("No Virtual Machines found in the current subscription.", h, <<"list_vms">>)
        ELSE Return("### Virtual Machines (Subscription: " \o BQ \o AZURE_SUBSCRIPTION_ID \o BQ \o ")\n\n"
                    \o "| Name | Resource Group | Location | Size | OS | State |\n"
                    \o "| :--- | :--- | :--- | :--- | :--- | :--- |\n"
                    \o Concat([k \in 1..Len(vms.value) |-> VmRow(vms.value[k])]),
                    h, <<"list_vms">>)

\* a handler that made these calls and is inside its next one
Pending(handlers, calls) == Outcome("", "", NoException, handlers, calls)

\* target_vm when the handler has none
NoVm ==
    [name |-> "", location |-> "", size |-> "", os |-> "", provisioning_state |-> "",
     resource_group |-> ""]

\* _handle_vm_status from its start into its call of get_vm_status: list_vms is
\* answered by the cloud as it is now.  The outcome is Pending when the handler goes on
\* with target_vm, else the handler has ended.
VmStatusFind(self, cloud, vm_name) ==
    LET h == <<"_handle_vm_status">>
        vms == list_vms(cloud)
        t == FindVm(vms.value, vm_name)
        end(out) == [out |-> out, target_vm |-> NoVm]
    IN  IF ~Has(self, "list_vms") THEN end(NoAttribute("list_vms", h, <<>>))
        ELSE IF vms.error THEN end(StrIndexError(h, <<"list_vms">>))
        ELSE IF t = 0
        THEN end(Return("Could not find VM named " \o BQ \o vm_name \o BQ
                        \o " in the subscription.", h, <<"list_vms">>))
        ELSE IF ~Has(self, "get_vm_status")
        THEN end(NoAttribute("get_vm_status", h, <<"list_vms">>))
        ELSE [out |-> Pending(h, <<"list_vms">>), target_vm |-> vms.value[t]]

\* _handle_vm_status from the answer of get_vm_status, given by the cloud as it is
\* then, to its return
VmStatusGet(self, cloud, vm_name, target_vm) ==
    LET h == <<"_handle_vm_status">>
        status == get_vm_status(cloud, target_vm.resource_group, target_vm.name)
        both == <<"list_vms", "get_vm_status">>
    IN  IF status.error
        THEN Return("Error fetching status for " \o BQ \o vm_name \o BQ \o ": " \o status.msg, h, both)
        ELSE Return("### Health Status: " \o BQ \o status.value.name \o BQ \o "\n\n"
                    \o "- **Power State:** " \o status.value.status \o "\n"
                    \o "- **Provisioning State:** " \o status.value.provisioning_state \o "\n"
                    \o "- **Resource Group:** " \o target_vm.resource_group \o "\n"
                    \o "- **Size:** " \o status.value.size \o "\n"
                    \o "- **Location:** " \o status.value.location,
                    h, both)

\* _handle_vm_status(vm_name), list_vms answered by cloud and get_vm_status by later
_handle_vm_status(self, cloud, later, vm_name) ==
    LET found == VmStatusFind(self, cloud, vm_name)
    IN  IF found.out.kind # "" THEN found.out
        ELSE VmStatusGet(self, later, vm_name, found.target_vm)

MetricLine(m) ==
    "- **" \o m.name \o ":** "
        \o (IF m.values = <<>> THEN "N/A"
            ELSE Join([k \in 1..Len(m.values) |-> m.values[k] \o "%"], ", "))
        \o " (Last 5 mins)\n"

\* _handle_metrics from its start into its call of get_metrics
MetricsFind(self, cloud, resource_name) ==
    LET h == <<"_handle_metrics">>
        vms == list_vms(cloud)
        t == FindVm(vms.value, resource_name)
        end(out) == [out |-> out, target_vm |-> NoVm]
    IN  IF ~Has(self, "list_vms") THEN end(NoAttribute("list_vms", h, <<>>))
        ELSE IF vms.error THEN end(StrIndexError(h, <<"list_vms">>))
        ELSE IF t = 0
        THEN end(Return("Could not find a Virtual Machine named " \o BQ \o resource_name
                        \o BQ \o " to fetch metrics.", h, <<"list_vms">>))
        ELSE IF ~Has(self, "get_metrics") THEN end(NoAttribute("get_metrics", h, <<"list_vms">>))
        ELSE [out |-> Pending(h, <<"list_vms">>), target_vm |-> vms.value[t]]

\* _handle_metrics from the answer of get_metrics to its return
MetricsGet(self, cloud, target_vm) ==
    LET h == <<"_handle_metrics">>
        metrics == get_metrics(cloud, VmId(target_vm.resource_group, target_vm.name))
        both == <<"list_vms", "get_metrics">>
    IN  IF metrics.error THEN Return("Error fetching metrics: " \o metrics.msg, h, both)
        ELSE Return("### Latest Metrics for " \o BQ \o target_vm.name \o BQ \o "\n\n"
                    \o Concat([k \in 1..Len(metrics.value) |-> MetricLine(metrics.value[k])])
                    \o (IF metrics.value = <<>>
                        THEN "No metric data available for this resource in the last hour."
                        ELSE ""),
                    h, both)

\* _handle_metrics(resource_name), list_vms answered by cloud and get_metrics by later
_handle_metrics(self, cloud, later, resource_name) ==
    LET found == MetricsFind(self, cloud, resource_name)
    IN  IF found.out.kind # "" THEN found.out
        ELSE MetricsGet(self, later, found.target_vm)

\* a variant that also lists the VMs of the groups
_handle_list_rgs_with_vms(self, cloud) ==
    Return("### Resource Groups\n\n", <<"_handle_list_rgs">>,
           <<"list_resource_groups", "list_vms">>)

_handle_list_rgs(self, cloud) ==
    LET h == <<"_handle_list_rgs">>
        rgs == list_resource_groups(cloud)
    IN  IF ~Has(self, "list_resource_groups") THEN NoAttribute("list_resource_groups", h, <<>>)
        ELSE IF rgs.error
        THEN Return("Error fetching Resource Groups: " \o rgs.msg, h, <<"list_resource_groups">>)
        ELSE Return("### Resource Groups\n\n"
                    \o Concat([k \in 1..Len(rgs.value) |->
                          "- " \o BQ \o rgs.value[k].name \o BQ \o " (" \o rgs.value[k].location \o ")\n"]),
                    h, <<"list_resource_groups">>)

\* The handlers below start by looking up a method that AzureService does not
\* define: the lookup raises AttributeError and the rest of the handler is not reached.
_handle_list_vnets(self, cloud) == NoAttribute("list_vnets", <<"_handle_list_vnets">>, <<>>)

_handle_list_public_ips(self, cloud) ==
    NoAttribute("list_public_ips", <<"_handle_list_public_ips">>, <<>>)

_handle_list_subscriptions(self, cloud) ==
    NoAttribute("list_subscriptions", <<"_handle_list_subscriptions">>, <<>>)

_handle_generic_discovery(self, cloud, keyword, provider, state_filter) ==
    NoAttribute("query_resources", <<"_handle_generic_discovery">>, <<>>)

_handle_performance_filter(self, cloud, metric_type, direction, threshold) ==
    NoAttribute("query_resources", <<"_handle_performance_filter">>, <<>>)

_handle_vm_disk_count(self, cloud) ==
    NoAttribute("query_resources", <<"_handle_vm_disk_count">>, <<>>)

\* A code point beyond U+00FF, which a TLA+ string cannot hold, is written as the
\* currency sign: like the pictographs of the responses it is one character that is
\* neither \w nor \s and that lower() leaves alone.
Pictograph == "¤"

\* the text of _handle_help
HelpText ==
    "### " \o Pictograph \o " Azure-Agent Capabilities\n\n"
    \o "I can help you monitor and discover your Azure infrastructure using natural language. "
    \o "Here are the specific things I can do:\n\n"
    \o "#### " \o Pictograph \o Pictograph \o " Compute\n"
    \o "- **List VMs**: 'Show all my virtual machines'\n"
    \o "- **VM Status**: 'What is the status of VM web-server-01?'\n"
    \o "- **Metrics**: 'Show CPU for MyVMName' or 'Memory for analytics-db'\n"
    \o "- **Inventory**: 'Disk count for all VMs'\n\n"
    \o "#### " \o Pictograph \o " Networking\n"
    \o "- **VNets**: 'List all virtual networks'\n"
    \o "- **Public IPs**: 'Show my public IP addresses'\n"
    \o "- **State Alerts**: 'List unattached disks' or 'Show stopped VMs'\n\n"
    \o "#### " \o Pictograph \o " Organization & Discovery\n"
    \o "- **Subscriptions**: 'List all my subscriptions'\n"
    \o "- **Resource Groups**: 'List resource groups'\n"
    \o "- **Wide Discovery**: I can find **100+ resource types** (SQL, Storage, Key Vaults, AKS, Firewalls, etc.). "
    \o "Just ask: 'Show all storage accounts' or 'List my key vaults'.\n\n"
    \o "--- \n"
    \o "*Note: I am currently in read-only mode (Phase 1).* "

_handle_help(self) == Return(HelpText, <<"_handle_help">>, <<>>)

DefaultMessage ==
    "I'm sorry, I couldn't determine the specific Azure action for that query.\n\n"
    \o "Try asking things like:\n"
    \o "- 'Show all VMs'\n"
    \o "- 'Status of VM MyVMName'\n"
    \o "- 'CPU for MyVMName'\n"
    \o "- 'List resource groups'"

\* words = [w for w in query.split() if len(w) > 3]
RECURSIVE LongWords(_)
LongWords(ws) ==
    IF ws = <<>> THEN <<>>
    ELSE (IF Len(Head(ws)) > 3 THEN <<Head(ws)>> ELSE <<>>) \o LongWords(Tail(ws))

Words(query) == LongWords(Split(query))

\* The semantic discovery section of process_query: it starts with
\* self.azure.get_resource_types(), which AzureService does not define, so the
\* type match, the keyword search and the default message are not reached.
SemanticFallback(self, cloud, query) == NoAttribute("get_resource_types", <<>>, <<>>)

\* the call process_query makes for the intent it selected: the handler's first call on
\* the service is answered by cloud, its second by later
RunHandler(self, cloud, later, query, intent) ==
    CASE intent.handler = "_handle_performance_filter" ->
            _handle_performance_filter(self, cloud, intent.metric, intent.direction, intent.threshold)
      [] intent.handler = "_handle_help" -> _handle_help(self)
      [] intent.handler = "_handle_list_vms" -> _handle_list_vms(self, cloud)
      [] intent.handler = "_handle_vm_disk_count" -> _handle_vm_disk_count(self, cloud)
      [] intent.handler = "_handle_vm_status" -> _handle_vm_status(self, cloud, later, intent.name)
      [] intent.handler = "_handle_metrics" -> _handle_metrics(self, cloud, later, intent.name)
      [] intent.handler = "_handle_list_rgs" -> _handle_list_rgs(self, cloud)
      [] intent.handler = "_handle_list_vnets" -> _handle_list_vnets(self, cloud)
      [] intent.handler = "_handle_list_public_ips" -> _handle_list_public_ips(self, cloud)
      [] intent.handler = "_handle_list_subscriptions" -> _handle_list_subscriptions(self, cloud)
      [] intent.handler = "_handle_generic_discovery" ->
            _handle_generic_discovery(self, cloud, intent.name, intent.provider, intent.filter)
      [] intent.handler = "" -> SemanticFallback(self, cloud, query)

\* process_query(query) as a function of the object, the query and a cloud that does
\* not change during the call
process_query(self, cloud, query) ==
    RunHandler(self, cloud, cloud, Lower(query), SelectIntent(Lower(query)))

\* a variant that drops the service object after use
SelfAfterRelease(self, query) == [self EXCEPT !.azure = "NoneType"]

\* process_query assigns no attribute of self
SelfAfter(self, query) == self

(***************************************************************************)
(* Requests.  A request body is a list of messages {role, content}.        *)
(***************************************************************************)

MaxMsgs == 3
NumRequests == 2

Requests == 1..NumRequests

Message(role, content) == [role |-> role, content |-> content]

\* the queries the fallback message and the tool description name
ExampleQueries ==
    {"show all vms", "Show all VMs", "cpu for web-01", "CPU for MyVMName",
     "Status of VM MyVMName", "List resource groups"}

\* the queries the help text advertises
HelpExamples ==
    {"Show all my virtual machines", "What is the status of VM web-server-01?",
     "Show CPU for MyVMName", "Memory for analytics-db", "Disk count for all VMs",
     "List all virtual networks", "Show my public IP addresses", "List unattached disks",
     "Show stopped VMs", "List all my subscriptions", "List resource groups",
     "Show all storage accounts", "List my key vaults"}

OtherQueries ==
    {"help", "what can you do", "help me list vms", "cpu for help-01", "list vms",
     "get vms in resource groups", "number of disks", "disk count of status of vm web-01",
     "health of virtual machine web-01", "state of vm ghost", "status of vm web-01 or cpu for web-01",
     "metrics of web-01", "memory for ghost", "cpu for web-01 in resource groups",
     "show rgs", "show rgs of networks", "list vnets", "vnets and public ips",
     "show public ips", "show ips in all subscriptions", "list subscriptions",
     "show subscriptions of storage", "cpu greater than 60", "memory below 20%",
     "cpu utilization was higher than 80%", "memory below 20 on more vms", "cpu under 10",
     "list vms with cpu above 80", "help cpu is above 5", "show kubernetes clusters",
     "list unattached drives", "list deallocated instances", "show sql databases",
     "hi", "hello there", "find my stuff", " ", "vm",
     "cpuabove 5", "CPU for É1", "évm"}

Queries == ExampleQueries \cup HelpExamples \cup OtherQueries

\* request bodies holding one user message
QueryRequests == { << Message("user", q) >> : q \in Queries }

\* request bodies of up to MaxMsgs messages of any role
ChatMessages ==
    { Message("user", c) : c \in {"", "hi", "show vms"} }
        \cup { Message("assistant", "Here are your VMs."), Message("system", "Be brief.") }

RECURSIVE ListsUpTo(_, _)
ListsUpTo(S, n) ==
    IF n = 0 THEN { <<>> }
    ELSE ListsUpTo(S, n - 1)
         \cup { Append(l, m) : l \in { x \in ListsUpTo(S, n - 1) : Len(x) = n - 1 }, m \in S }

ChatRequests == ListsUpTo(ChatMessages, MaxMsgs)

(***************************************************************************)
(* agent.py: chat_completions.                                             *)
(***************************************************************************)

\* a variant that scans the messages forwards
FirstUserIndex(messages) ==
    LET users == { k \in 1..Len(messages) : messages[k].role = "user" }
    IN  IF users = {} THEN 0 ELSE CHOOSE k \in users : \A j \in users : k <= j

\* next((m.content for m in reversed(messages) if m.role == "user"), None):
\* the index of the message taken, 0 for None
LastUserIndex(messages) ==
    LET users == { k \in 1..Len(messages) : messages[k].role = "user" }
    IN  IF users = {} THEN 0 ELSE CHOOSE k \in users : \A j \in users : j <= k

\* the user message, "" standing for None as well (both are falsy)
UserMessage(messages) ==
    IF LastUserIndex(messages) = 0 THEN "" ELSE messages[LastUserIndex(messages)].content

NoUserMessage == HTTPException(400, "No user message found in request")

\* except Exception as e: raise HTTPException(status_code=500, detail=str(e))
ExceptHandler(e) == HTTPException(500, Str(e))

NoUsage == [prompt_tokens |-> 0, completion_tokens |-> 0, total_tokens |-> 0]

\* ChatCompletionResponse (id and created are fresh values and left out)
ChatCompletionResponse(user_message, response_text) ==
    [status_code |-> 200, content |-> response_text, detail |-> "", finish_reason |-> "stop",
     usage |-> [prompt_tokens |-> WordCount(user_message),
                completion_tokens |-> WordCount(response_text),
                total_tokens |-> WordCount(user_message) + WordCount(response_text)]]

\* the response FastAPI sends for a raised HTTPException
ErrorResponse(e) ==
    [status_code |-> e.status_code, content |-> "", detail |-> e.detail, finish_reason |-> "",
     usage |-> NoUsage]

NoResponse ==
    [status_code |-> 0, content |-> "", detail |-> "", finish_reason |-> "", usage |-> NoUsage]

(***************************************************************************)
(* The server: the cloud, the module-level IntentHandler and the requests  *)
(* in progress.  A request moves arrived -> queued -> selected ->          *)
(* returned | raised -> done.                                              *)
(***************************************************************************)

\* the contents a request of the model can carry
Contents == Queries \cup { m.content : m \in ChatMessages }

\* query.lower() and the matchers of process_query on each of them, evaluated once
SelectedIntent == [q \in Contents |-> SelectIntent(Lower(q))]

VARIABLES cloud, intent_handler, req

vars == <<cloud, intent_handler, req>>

NoIntent == Intent("", "")
NoOutcome == Outcome("", "", NoException, <<>>, <<>>)

\* target_vm is the handler's local of that name; seen lists the clouds that answered
\* the calls of outcome.calls, one for each
NewRequest(messages) ==
    [pc |-> "arrived", messages |-> messages, user_message |-> "", called |-> FALSE,
     intent |-> NoIntent, target_vm |-> NoVm, seen |-> <<>>, outcome |-> NoOutcome,
     http |-> NoResponse]

Unused == [NewRequest(<<>>) EXCEPT !.pc = "unused"]

TypeOK ==
    /\ cloud \in Clouds
    /\ \A r \in Requests :
          /\ req[r].pc \in {"unused", "arrived", "queued", "selected", "found", "returned",
                           "raised", "done"}
          /\ Len(req[r].seen) = Len(req[r].outcome.calls)
          /\ \A k \in 1..Len(req[r].seen) : req[r].seen[k] \in Clouds
          /\ \A k \in 1..Len(req[r].outcome.calls) : req[r].outcome.calls[k] \in AzureServiceMethods
          /\ \A k \in 1..Len(req[r].outcome.sdk) : req[r].outcome.sdk[k] \in SdkOperations

\* one request at a time, of any body
Init ==
    /\ cloud \in Clouds
    /\ intent_handler = IntentHandlerInit
    /\ \E body \in QueryRequests \cup ChatRequests :
          req = [r \in Requests |-> IF r = 1 THEN NewRequest(body) ELSE Unused]

\* chat_completions up to the hand-over to the thread pool
ChatCompletions(r) ==
    /\ req[r].pc = "arrived"
    /\ LET user_message == UserMessage(req[r].messages)
       IN  IF user_message = ""
           THEN req' = [req EXCEPT ![r].pc = "raised",
                                   ![r].outcome = [NoOutcome EXCEPT !.kind = "raise",
                                                                    !.exc = NoUserMessage]]
           ELSE req' = [req EXCEPT ![r].pc = "queued", ![r].user_message = user_message]
    /\ UNCHANGED <<cloud, intent_handler>>

\* process_query in a pool thread, up to the call of the handler it selects
ProcessQuery(r) ==
    /\ req[r].pc = "queued"
    /\ req' = [req EXCEPT ![r].pc = "selected", ![r].called = TRUE,
                          ![r].intent = SelectedIntent[req[r].user_message]]
    /\ intent_handler' = SelfAfter(intent_handler, req[r].user_message)
    /\ UNCHANGED cloud

\* process_query has selected this handler and is about to call it
Selected(r, handler) == req[r].pc = "selected" /\ req[r].intent.handler = handler

\* the clouds that answered the calls of out, the latest of them the cloud as it is now
Seen(r, out) ==
    IF Len(out.calls) > Len(req[r].seen) THEN Append(req[r].seen, cloud) ELSE req[r].seen

\* the handler returned or raised: process_query ends the same way
Finish(r, out) ==
    /\ req' = [req EXCEPT ![r].pc = IF out.kind = "return" THEN "returned" ELSE "raised",
                          ![r].outcome = out,
                          ![r].seen = Seen(r, out)]
    /\ UNCHANGED <<cloud, intent_handler>>

\* the handler found its VM in the answer of list_vms and is inside its second call
Found(r, found) ==
    /\ req' = [req EXCEPT ![r].pc = "found",
                          ![r].outcome = found.out,
                          ![r].target_vm = found.target_vm,
                          ![r].seen = Seen(r, found.out)]
    /\ UNCHANGED <<cloud, intent_handler>>

\* the handler is inside its second call on the service
Inside(r, handler) == req[r].pc = "found" /\ req[r].intent.handler = handler

HandlePerformanceFilter(r) ==
    /\ Selected(r, "_handle_performance_filter")
    /\ Finish(r, _handle_performance_filter(intent_handler, cloud, req[r].intent.metric,
                                            req[r].intent.direction, req[r].intent.threshold))

HandleHelp(r) ==
    /\ Selected(r, "_handle_help")
    /\ Finish(r, _handle_help(intent_handler))

HandleListVms(r) ==
    /\ Selected(r, "_handle_list_vms")
    /\ Finish(r, _handle_list_vms(intent_handler, cloud))

HandleVmDiskCount(r) ==
    /\ Selected(r, "_handle_vm_disk_count")
    /\ Finish(r, _handle_vm_disk_count(intent_handler, cloud))

\* _handle_vm_status until list_vms is answered: it ends, or goes on to get_vm_status
HandleVmStatus(r) ==
    /\ Selected(r, "_handle_vm_status")
    /\ LET found == VmStatusFind(intent_handler, cloud, req[r].intent.name)
       IN  IF found.out.kind = "" THEN Found(r, found) ELSE Finish(r, found.out)

\* get_vm_status is answered and _handle_vm_status returns
GetVmStatus(r) ==
    /\ Inside(r, "_handle_vm_status")
    /\ Finish(r, VmStatusGet(intent_handler, cloud, req[r].intent.name, req[r].target_vm))

\* _handle_metrics until list_vms is answered: it ends, or goes on to get_metrics
HandleMetrics(r) ==
    /\ Selected(r, "_handle_metrics")
    /\ LET found == MetricsFind(intent_handler, cloud, req[r].intent.name)
       IN  IF found.out.kind = "" THEN Found(r, found) ELSE Finish(r, found.out)

\* get_metrics is answered and _handle_metrics returns
GetMetrics(r) ==
    /\ Inside(r, "_handle_metrics")
    /\ Finish(r, MetricsGet(intent_handler, cloud, req[r].target_vm))

HandleListRgs(r) ==
    /\ Selected(r, "_handle_list_rgs")
    /\ Finish(r, _handle_list_rgs(intent_handler, cloud))

HandleListVnets(r) ==
    /\ Selected(r, "_handle_list_vnets")
    /\ Finish(r, _handle_list_vnets(intent_handler, cloud))

HandleListPublicIps(r) ==
    /\ Selected(r, "_handle_list_public_ips")
    /\ Finish(r, _handle_list_public_ips(intent_handler, cloud))

HandleListSubscriptions(r) ==
    /\ Selected(r, "_handle_list_subscriptions")
    /\ Finish(r, _handle_list_subscriptions(intent_handler, cloud))

HandleGenericDiscovery(r) ==
    /\ Selected(r, "_handle_generic_discovery")
    /\ Finish(r, _handle_generic_discovery(intent_handler, cloud, req[r].intent.name,
                                           req[r].intent.provider, req[r].intent.filter))

\* no matcher selected a handler: the semantic discovery section
SemanticDiscovery(r) ==
    /\ Selected(r, "")
    /\ Finish(r, SemanticFallback(intent_handler, cloud, Lower(req[r].user_message)))

\* chat_completions after process_query returned: the 200 response
BuildResponse(r) ==
    /\ req[r].pc = "returned"
    /\ req' = [req EXCEPT ![r].pc = "done",
                          ![r].http = ChatCompletionResponse(req[r].user_message,
                                                             req[r].outcome.text)]
    /\ UNCHANGED <<cloud, intent_handler>>

\* chat_completions' except clause, for whatever was raised inside the try
ExceptException(r) ==
    /\ req[r].pc = "raised"
    /\ req' = [req EXCEPT ![r].pc = "done",
                          ![r].http = ErrorResponse(ExceptHandler(req[r].outcome.exc))]
    /\ UNCHANGED <<cloud, intent_handler>>

\* the subscription changes while the server runs: one of its VMs is deleted
DeleteVm ==
    /\ \E k \in 1..Len(cloud.vms) : cloud' = [cloud EXCEPT !.vms = Without(cloud.vms, k)]
    /\ UNCHANGED <<intent_handler, req>>

Next ==
    \/ DeleteVm
    \/ \E r \in Requests :
        \/ ChatCompletions(r)
        \/ ProcessQuery(r)
        \/ HandlePerformanceFilter(r)
        \/ HandleHelp(r)
        \/ HandleListVms(r)
        \/ HandleVmDiskCount(r)
        \/ HandleVmStatus(r)
        \/ GetVmStatus(r)
        \/ HandleMetrics(r)
        \/ GetMetrics(r)
        \/ HandleListRgs(r)
        \/ HandleListVnets(r)
        \/ HandleListPublicIps(r)
        \/ HandleListSubscriptions(r)
        \/ HandleGenericDiscovery(r)
        \/ SemanticDiscovery(r)
        \/ BuildResponse(r)
        \/ ExceptException(r)

Spec == Init /\ [][Next]_vars

(***************************************************************************)
(* Several requests in the thread pool at once, against one subscription.  *)
(***************************************************************************)

ConcurrentBodies ==
    { << Message("user", "cpu greater than 60") >>,
      << Message("system", "Be brief."), Message("user", "help") >>,
      << Message("user", "list vms") >>,
      << Message("user", "number of disks") >>,
      << Message("user", "Status of VM MyVMName") >>,
      << Message("user", "cpu for web-01") >>,
      << Message("user", "show rgs") >>,
      << Message("user", "list vnets") >>,
      << Message("user", "show public ips") >>,
      << Message("user", "list subscriptions") >>,
      << Message("user", "show sql databases") >>,
      << Message("user", "list vms"), Message("assistant", "Here are your VMs."),
         Message("user", "hi") >> }

\* the clouds of the full subscription, with any of its VMs deleted
ConcurrentReach == { c \in Clouds : c.groups = FullInventory.groups
                                      /\ c.msg # "Request timed out"
                                      /\ "resource_groups.list" \notin c.failing
                                      /\ "virtual_machines.list_all" \notin c.failing }

ConcurrentClouds == { c \in ConcurrentReach : c.vms = FullInventory.vms /\ c.failing = {} }

\* the bodies of the second request
ConcurrentSeconds ==
    { << Message("user", "list vms") >>,
      << Message("user", "cpu for web-01") >>,
      << Message("user", "Status of VM MyVMName") >>,
      << Message("system", "Be brief."), Message("user", "help") >> }

\* the body that requests beyond the second repeat
ConcurrentRepeats == { << Message("user", "list vms") >> }

InitConcurrent ==
    /\ cloud \in ConcurrentClouds
    /\ intent_handler = IntentHandlerInit
    /\ req \in { f \in [Requests -> { NewRequest(b) : b \in ConcurrentBodies }] :
                    \A r \in Requests :
                        /\ r > 1 => f[r].messages \in ConcurrentSeconds
                        /\ r > 2 => f[r].messages \in ConcurrentRepeats }

SpecConcurrent == InitConcurrent /\ [][Next]_vars

(***************************************************************************)
(* Properties.                                                             *)
(***************************************************************************)

\* process_query was called for r and has returned or raised
Finished(r) == req[r].called /\ req[r].pc \in {"returned", "raised", "done"}

\* the matchers that select a handler, in the order of the if-ladder
MatcherOrder ==
    <<"perf", "help", "list_vms", "disk_count", "vm_status", "metrics", "rgs", "vnets",
      "public_ips", "subscriptions", "alias">>

Hits(matcher, query) ==
    CASE matcher = "perf" -> Search(PerfPattern, query).found
      [] matcher = "help" -> AnyKw(query, HelpKeywords)
      [] matcher = "list_vms" -> AnyKw(query, ListVmsKeywords)
      [] matcher = "disk_count" -> AnyKw(query, DiskCountKeywords)
      [] matcher = "vm_status" -> Search(VmStatusPattern, query).found
      [] matcher = "metrics" -> Search(MetricsPattern, query).found
      [] matcher = "rgs" -> AnyKw(query, RgKeywords)
      [] matcher = "vnets" -> AnyKw(query, VnetKeywords)
      [] matcher = "public_ips" -> AnyKw(query, PublicIpKeywords)
      [] matcher = "subscriptions" -> AnyKw(query, SubscriptionKeywords)
      [] matcher = "alias" ->
            \E k \in 1..Len(AliasPairs) : Search(AliasPattern(AliasPairs[k].alias), query).found

HandlerOfMatcher(matcher) ==
    CASE matcher = "perf" -> "_handle_performance_filter"
      [] matcher = "help" -> "_handle_help"
      [] matcher = "list_vms" -> "_handle_list_vms"
      [] matcher = "disk_count" -> "_handle_vm_disk_count"
      [] matcher = "vm_status" -> "_handle_vm_status"
      [] matcher = "metrics" -> "_handle_metrics"
      [] matcher = "rgs" -> "_handle_list_rgs"
      [] matcher = "vnets" -> "_handle_list_vnets"
      [] matcher = "public_ips" -> "_handle_list_public_ips"
      [] matcher = "subscriptions" -> "_handle_list_subscriptions"
      [] matcher = "alias" -> "_handle_generic_discovery"

\* the first matcher of MatcherOrder that matches the lower-cased content, "" when none does
FirstMatcher ==
    [q \in Contents |->
        LET hits == { k \in 1..Len(MatcherOrder) : Hits(MatcherOrder[k], Lower(q)) }
        IN  IF hits = {} THEN ""
            ELSE MatcherOrder[CHOOSE k \in hits : \A j \in hits : k <= j]]

\* C1: for every query exactly one handler runs, the handler of the first matcher, in
\* the fixed order, that matches the lower-cased query; a query that no keyword, regex
\* or alias matches gets the semantic type match (generic discovery), the keyword
\* search (dynamic search) or the default message.
C1_FirstMatcherHandlerRuns ==
    \A r \in Requests :
        Finished(r) =>
            LET m == FirstMatcher[req[r].user_message]
                out == req[r].outcome
            IN  IF m # "" THEN out.handlers = << HandlerOfMatcher(m) >>
                ELSE \/ out.handlers = << "_handle_generic_discovery" >>
                     \/ out.handlers = << "_handle_dynamic_search" >>
                     \/ out.handlers = <<>> /\ out.kind = "return" /\ out.text = DefaultMessage

\* C2: the text passed to process_query is the content of the message with role
\* "user" that comes latest in the list, whatever follows it and whatever user
\* messages precede it (a request whose latest user message is empty is rejected
\* before process_query, see C8).
C2_LastUserMessagePassed ==
    \A r \in Requests :
        LET ms == req[r].messages
            latest == { k \in 1..Len(ms) :
                          /\ ms[k].role = "user"
                          /\ \A j \in (k + 1)..Len(ms) : ms[j].role # "user" }
        IN  /\ req[r].called =>
                \E k \in latest : req[r].user_message = ms[k].content
            /\ (req[r].pc \notin {"unused", "arrived"} /\ \E k \in latest : ms[k].content # "") =>
                /\ \E k \in latest : req[r].user_message = ms[k].content
                /\ req[r].pc = "queued" \/ req[r].called

\* process_query got the latest of two different user messages, with a message of
\* another role after it
C2_Witness ==
    \E r \in Requests :
        /\ req[r].called
        /\ Len(req[r].messages) = 3
        /\ req[r].messages[1] = Message("user", "hi")
        /\ req[r].messages[2] = Message("user", "show vms")
        /\ req[r].messages[3].role = "assistant"
        /\ req[r].user_message = "show vms"

\* C3 as claimed: handling one request issues at most one call to the cloud service.
C3_AtMostOneCall ==
    \A r \in Requests : Len(req[r].outcome.calls) <= 1

\* C3, amended: a request issues at most two calls; two only in the VM-status and
\* metrics handlers, which list the VMs and then, the named VM found, get its status
\* or metrics; every other path issues at most one.
C3_CallBudget ==
    \A r \in Requests :
        LET out == req[r].outcome
        IN  /\ Len(out.calls) <= 2
            /\ Len(out.sdk) = Len(out.calls)
            /\ Len(out.calls) = 2 =>
                  \/ out.handlers = <<"_handle_vm_status">> /\ out.calls = <<"list_vms", "get_vm_status">>
                  \/ out.handlers = <<"_handle_metrics">> /\ out.calls = <<"list_vms", "get_metrics">>
            /\ Len(out.calls) = 2 => FindVm(req[r].seen[1].vms, req[r].intent.name) # 0
            /\ req[r].pc = "found" =>
                  /\ out.calls = <<"list_vms">>
                  /\ FindVm(req[r].seen[1].vms, req[r].intent.name) # 0

\* a VM-status request that found its VM made both calls and was answered
C3_Witness ==
    \E r \in Requests :
        /\ req[r].pc = "done"
        /\ req[r].http.status_code = 200
        /\ req[r].outcome.handlers = <<"_handle_vm_status">>
        /\ req[r].outcome.calls = <<"list_vms", "get_vm_status">>

\* the response of a server that handles this request body alone: process_query on
\* a fresh IntentHandler, its intent read off SelectedIntent, the handler's first
\* call answered by the cloud c and its second by later
ServedAlone(messages, c, later) ==
    LET user_message == UserMessage(messages)
        out == RunHandler(IntentHandlerInit, c, later, Lower(user_message),
                          SelectedIntent[user_message])
    IN  IF user_message = "" THEN ErrorResponse(ExceptHandler(NoUserMessage))
        ELSE IF out.kind = "return" THEN ChatCompletionResponse(user_message, out.text)
        ELSE ErrorResponse(ExceptHandler(out.exc))

\* the bodies of the concurrent requests, and each reduced to its last user message
AloneBodies ==
    ConcurrentBodies \cup { << Message("user", UserMessage(b)) >> : b \in ConcurrentBodies }

\* ServedAlone on each of them, evaluated once
AnsweredAlone ==
    [c \in ConcurrentReach |->
        [later \in ConcurrentReach |-> [b \in AloneBodies |-> ServedAlone(b, c, later)]]]

\* the cloud that answered the first call of request r, and the one that answered its
\* latest: the cloud as it is for a request that made no call
FirstSeen(r) == IF req[r].seen = <<>> THEN cloud ELSE req[r].seen[1]
LastSeen(r) == IF req[r].seen = <<>> THEN cloud ELSE req[r].seen[Len(req[r].seen)]

\* C4: process_query leaves the shared IntentHandler as it was constructed, and under
\* every interleaving each response equals the response the request gets when served
\* alone against the same cloud (the subscription as it was when it answered the
\* request's calls), which is the response to its last user message alone.
C4_Stateless ==
    /\ intent_handler = IntentHandlerInit
    /\ \A r \in Requests :
          req[r].pc = "done" =>
              LET alone == AnsweredAlone[FirstSeen(r)][LastSeen(r)]
              IN  /\ req[r].http = alone[req[r].messages]
                  /\ req[r].http = alone[<< Message("user", UserMessage(req[r].messages)) >>]

\* one request was answered with its VM list while another, for a different query, is
\* between the two calls of its handler
C4_Witness ==
    \E r1, r2 \in Requests :
        /\ r1 # r2
        /\ req[r1].pc = "found"
        /\ req[r1].user_message = "cpu for web-01"
        /\ req[r1].outcome.calls = <<"list_vms">>
        /\ req[r2].pc = "done"
        /\ req[r2].user_message = "list vms"
        /\ req[r2].http.status_code = 200

ReadOnlyPrefixes == <<"list_", "get_", "query_">>
ReadOnlyVerbs == {"list", "list_all", "get"}

StartsWith(s, prefix) == Len(prefix) <= Len(s) /\ SubSeq(s, 1, Len(prefix)) = prefix

\* the name of an SDK operation after its last dot
RECURSIVE Verb(_)
Verb(op) ==
    IF ~Contains(op, ".") THEN op
    ELSE Verb(SubSeq(op, (CHOOSE i \in 1..Len(op) : At(op, i) = "."
                              /\ \A j \in 1..(i - 1) : At(op, j) # ".") + 1, Len(op)))

\* C5: every call made on the cloud service is a list, get or query operation, and
\* every SDK operation it issues lists or gets; none creates, modifies, starts, stops
\* or deletes.
C5_ReadOnly ==
    \A r \in Requests :
        /\ \A k \in 1..Len(req[r].outcome.calls) :
              \E p \in 1..Len(ReadOnlyPrefixes) :
                  StartsWith(req[r].outcome.calls[k], ReadOnlyPrefixes[p])
        /\ \A k \in 1..Len(req[r].outcome.sdk) : Verb(req[r].outcome.sdk[k]) \in ReadOnlyVerbs

\* a request was served by two SDK operations
C5_Witness ==
    \E r \in Requests :
        /\ req[r].pc = "done"
        /\ req[r].outcome.sdk = <<"virtual_machines.list_all", "virtual_machines.get">>

\* C6: "show all vms" and "Show all VMs" run the list-VMs handler, "cpu for web-01"
\* and "CPU for MyVMName" the metrics handler with that resource name, "Status of VM
\* MyVMName" the VM-status handler with that VM name, "List resource groups" the
\* resource-group handler.  The name reaches the handler lower-cased and is compared
\* without regard to case, so that it finds the VM of that name.
C6_ExamplesReachIntents ==
    \A r \in Requests :
        Finished(r) =>
            LET q == req[r].user_message
                out == req[r].outcome
                found == /\ req[r].seen # <<>>
                         /\ FindVm(req[r].seen[1].vms, req[r].intent.name) # 0
                         /\ "virtual_machines.list_all" \notin cloud.failing
            IN  /\ q \in {"show all vms", "Show all VMs"} => out.handlers = <<"_handle_list_vms">>
                /\ q = "cpu for web-01" =>
                      /\ out.handlers = <<"_handle_metrics">>
                      /\ req[r].intent.name = "web-01"
                      /\ found => out.calls = <<"list_vms", "get_metrics">>
                /\ q = "CPU for MyVMName" =>
                      /\ out.handlers = <<"_handle_metrics">>
                      /\ req[r].intent.name = Lower("MyVMName")
                      /\ found => out.calls = <<"list_vms", "get_metrics">>
                /\ q = "Status of VM MyVMName" =>
                      /\ out.handlers = <<"_handle_vm_status">>
                      /\ req[r].intent.name = Lower("MyVMName")
                      /\ (found /\ cloud.failing = {}
                                /\ FindVm(LastSeen(r).vms, req[r].intent.name) # 0) =>
                            Contains(out.text, "Health Status: " \o BQ \o "MyVMName" \o BQ)
                /\ q = "List resource groups" => out.handlers = <<"_handle_list_rgs">>

\* "Status of VM MyVMName" was answered with the status of the VM MyVMName
C6_Witness ==
    \E r \in Requests :
        /\ req[r].pc = "done"
        /\ req[r].user_message = "Status of VM MyVMName"
        /\ req[r].http.status_code = 200
        /\ Contains(req[r].http.content, "- **Power State:** VM deallocated")

VmProvider == "Microsoft.Compute/virtualMachines"

\* the handler (and resource type, state filter) the help text advertises an example under
Advertised(q, intent) ==
    CASE q = "Show all my virtual machines" ->
            \/ intent.handler = "_handle_list_vms"
            \/ intent.handler = "_handle_generic_discovery" /\ intent.provider = VmProvider
      [] q = "What is the status of VM web-server-01?" ->
            intent.handler = "_handle_vm_status" /\ intent.name = "web-server-01"
      [] q = "Show CPU for MyVMName" ->
            intent.handler = "_handle_metrics" /\ intent.name = Lower("MyVMName")
      [] q = "Memory for analytics-db" ->
            intent.handler = "_handle_metrics" /\ intent.name = "analytics-db"
      [] q = "Disk count for all VMs" -> intent.handler = "_handle_vm_disk_count"
      [] q = "List all virtual networks" -> intent.handler = "_handle_list_vnets"
      [] q = "Show my public IP addresses" -> intent.handler = "_handle_list_public_ips"
      [] q = "List unattached disks" ->
            /\ intent.handler = "_handle_generic_discovery"
            /\ intent.provider = "Microsoft.Compute/disks"
            /\ intent.filter = UnattachedFilter
      [] q = "Show stopped VMs" ->
            /\ intent.handler = "_handle_generic_discovery"
            /\ intent.provider = VmProvider
            /\ intent.filter = StoppedFilter
      [] q = "List all my subscriptions" -> intent.handler = "_handle_list_subscriptions"
      [] q = "List resource groups" -> intent.handler = "_handle_list_rgs"
      [] q = "Show all storage accounts" ->
            /\ intent.handler = "_handle_generic_discovery"
            /\ intent.provider = "Microsoft.Storage/storageAccounts"
      [] q = "List my key vaults" ->
            /\ intent.handler = "_handle_generic_discovery"
            /\ intent.provider = "Microsoft.KeyVault/vaults"

\* C7: every example query of the help text is routed to the capability it is
\* advertised under.
C7_HelpExamplesRouted ==
    \A r \in Requests :
        (Finished(r) /\ req[r].user_message \in HelpExamples) =>
            /\ Advertised(req[r].user_message, req[r].intent)
            /\ req[r].outcome.handlers = << req[r].intent.handler >>

\* C8: a request with no message of role "user", or whose last user message is empty,
\* is answered with status 400 and detail "No user message found in request", and
\* process_query is not called for it.
C8_NoUserMessageIs400 ==
    \A r \in Requests :
        LET ms == req[r].messages
            users == { k \in 1..Len(ms) : ms[k].role = "user" }
            unusable == \/ users = {}
                        \/ \E k \in users : (\A j \in users : j <= k) /\ ms[k].content = ""
        IN  (req[r].pc = "done" /\ unusable) =>
                /\ req[r].http.status_code = 400
                /\ req[r].http.detail = "No user message found in request"
                /\ ~req[r].called

\* C9: whenever a cloud service call of the selected handler returns an error record
\* {"error": msg}, process_query raises nothing and returns a string that reports the
\* error with msg.
C9_CloudErrorReportedAsText ==
    \A r \in Requests :
        (Finished(r) /\ \E k \in 1..Len(req[r].outcome.sdk) : req[r].outcome.sdk[k] \in cloud.failing) =>
            /\ req[r].outcome.kind = "return"
            /\ Contains(req[r].outcome.text, "Error")
            /\ Contains(req[r].outcome.text, cloud.msg)

\* C10: process_query is total: every call returns a text; a query that no keyword,
\* regex or alias matches and that has no word longer than 3 characters gets the
\* default message.
C10_ProcessQueryTotal ==
    \A r \in Requests :
        Finished(r) =>
            /\ req[r].outcome.kind = "return"
            /\ (FirstMatcher[req[r].user_message] = "" /\ Words(Lower(req[r].user_message)) = <<>>) =>
                  req[r].outcome.text = DefaultMessage

(***************************************************************************)
(* The performance filter: the comparator the perf pattern matched, and    *)
(* the test _handle_performance_filter applies to a VM's metric value.     *)
(***************************************************************************)

\* the perf_match pattern with its comparator captured (as group 2) instead of its
\* threshold: capturing does not change what the pattern matches
PerfComparatorPattern ==
    Cat(<< Grp(1, LitAlt(<<"cpu", "memory">>)),
           Rep(Cat(<<Spaces1, Plus(Cls(WordChars))>>), 0, 3),
           Spaces1,
           Opt(LitAlt(<<"is", "was", "were", "are", "of">>)),
           Spaces0,
           Grp(2, LitAlt(ComparatorWords)),
           Spaces0,
           Opt(LitAlt(<<"than", "to", "of">>)),
           Spaces0,
           Plus(Cls(Digits)),
           Opt(Lit("%")) >>)

\* the comparator word perf_match matched in each content, "" when it does not match
MatchedComparator ==
    [q \in Contents |->
        LET m == Search(PerfComparatorPattern, Lower(q))
        IN  IF m.found THEN Group(Lower(q), m, 2) ELSE ""]

\* if direction in ["greater", "higher", "more"] and val > threshold: results.append
\* elif direction in ["less", "below"] and val < threshold: results.append
FilterKeeps(direction, val, threshold) ==
    \/ direction \in {"greater", "higher", "more"} /\ val > threshold
    \/ direction \in {"less", "below"} /\ val < threshold

\* metric values around a threshold
ValuesAround(threshold) == { threshold - 1, threshold, threshold + 1 }

\* C11: in a performance-filter query the direction handed to
\* _handle_performance_filter agrees with the comparator perf_match matched: after
\* greater/higher/more/above the filter keeps the values above the threshold, after
\* less/below/under the values below it, whatever else the query contains.
C11_DirectionAgreesWithComparator ==
    \A r \in Requests :
        (Finished(r) /\ req[r].intent.matcher = "perf") =>
            LET comparator == MatchedComparator[req[r].user_message]
                threshold == req[r].intent.threshold
            IN  \A val \in ValuesAround(threshold) :
                    FilterKeeps(req[r].intent.direction, val, threshold)
                        = (IF comparator \in {"greater", "higher", "more", "above"}
                           THEN val > threshold ELSE val < threshold)

====
